---- MODULE Spec2Model ----
(***************************************************************************)
(* Model of rtsgame/objects.py: Character, Quest, GameMap, GameEngine.     *)
(*                                                                         *)
(* Positions (Character._position) are floats in the source.  Every value  *)
(* the program computes is a multiple of 1/10 pixel (MOVE_SPEED * ms/1000  *)
(* is a multiple of 1/5 px, the exit correction adds multiples of 1/2 px), *)
(* so a position is kept as an integer number of 1/Sub pixels.  pygame     *)
(* Rect coordinates are integers: assigning a float truncates it.          *)
(***************************************************************************)
EXTENDS Integers, Sequences, FiniteSets, TLC

\* ------------------------------------------------------------------ bounds
MaxTicks == 2      \* iterations of the run loop that are explored
MaxEvents == 2     \* events returned by poll() in one handle_input
MaxChoices == 1    \* times in a run the held keys command another velocity, or an
                   \* NPC draws something else than (direction 0, no velocity change)
MaxSteps == 5      \* Character operations explored by SpecEntity

\* --------------------------------------------------------------- constants
MOVE_SPEED == 200                 \* config.py: pixels per second
FeetHeight == 15                  \* Character.__init__: pygame.Rect(0, 0, w * 0.5, 15)
HeroStartX == 2200                \* GameEngine.__init__: hero._position[0] on main_map.tmx
HeroStartY == 10000               \* GameEngine.__init__: hero._position[1] on main_map.tmx
Sub == 10                         \* sub-pixel units per pixel (float positions)
SpriteW == 48                     \* image.get_rect().width  of sprites/<name>.png
SpriteH == 48                     \* image.get_rect().height of sprites/<name>.png
FeetW == SpriteW \div 2           \* int(self.rect.width * 0.5)
None == "None"
StatusNone == 0                   \* Quest.__init__: self._status = None
OFFERED == 1                      \* GameMap.update: future_status = 1
HeroName == "chewie_00"           \* Character.__init__ default name
MainMap == "main_map.tmx"
PlainsMap == "plains_portal.tmx"
Maps == {MainMap, PlainsMap}      \* glob('**/*.tmx'): the loaded maps
DtMs == {50}                      \* clock.tick(): elapsed milliseconds of a tick

\* ------------------------------------------------------------ pygame.Rect
Rect(x, y, w, h) == [x |-> x, y |-> y, w |-> w, h |-> h]

\* pygame.Rect.colliderect
colliderect(a, b) ==
    /\ a.x < b.x + b.w
    /\ a.y < b.y + b.h
    /\ a.x + a.w > b.x
    /\ a.y + a.h > b.y

\* pygame.Rect.collidelist: index (1-based) of the first rectangle hit, 0 for -1
collidelist(r, rects) ==
    IF \E i \in 1..Len(rects) : colliderect(r, rects[i])
    THEN CHOOSE i \in 1..Len(rects) :
            /\ colliderect(r, rects[i])
            /\ \A j \in 1..(i - 1) : ~colliderect(r, rects[j])
    ELSE 0

centerx(r) == r.x + (r.w \div 2)
centery(r) == r.y + (r.h \div 2)
midbottom(r) == <<r.x + (r.w \div 2), r.y + r.h>>

\* float -> int conversion of a Rect coordinate (C cast: toward zero)
Trunc(p) == IF p >= 0 THEN p \div Sub ELSE -((-p) \div Sub)

\* ------------------------------------------------------------- map data
\* Layers of the .tmx files, as GameMap.__init__ stores them.
Walls ==
    [m \in Maps |->
        IF m = MainMap
        THEN <<Rect(2240, 10000, 20, 60), Rect(2240, 10095, 60, 20),
               Rect(4400, 9485, 80, 20)>>
        ELSE <<Rect(140, 90, 20, 80)>>]

\* exit objects: rectangle, obj.name, obj.type and a "destination" property
ExitObjs ==
    [m \in Maps |->
        IF m = MainMap
        THEN << [rect |-> Rect(2210, 10005, 30, 20), name |-> PlainsMap,
                 type |-> "portal", destination |-> PlainsMap],
                [rect |-> Rect(2210, 10050, 30, 20), name |-> "to_plains",
                 type |-> "portal", destination |-> PlainsMap] >>
        ELSE << [rect |-> Rect(110, 100, 30, 25), name |-> MainMap,
                 type |-> "portal", destination |-> MainMap] >>]

Exits == [m \in Maps |-> [i \in 1..Len(ExitObjs[m]) |-> ExitObjs[m][i].rect]]

\* hero_start_postion: <<x, y>> of the 'Hero Start Position' layer, <<>> for None
HeroStartPostion ==
    [m \in Maps |-> IF m = MainMap THEN <<>> ELSE <<100, 100>>]

\* the characters list of GameEngine.__init__
CharacterTable ==
    << [name |-> "chewie_04", x |-> 2240, y |-> 10044,
        dialogs |-> [hello |-> "Hello world!",
                     what |-> "Go find my thing dummy.",
                     salutation |-> "What's going on?",
                     goaway |-> "You look busy. Find me later.",
                     bye |-> "Goodbye"]],
       [name |-> "chewie_13", x |-> 4416, y |-> 9432,
        dialogs |-> [hello |-> "Bon jour!",
                     what |-> "Rawrr rrr warrwrrr.",
                     salutation |-> "Comment allez-vous?",
                     goaway |-> "Find me later dude.",
                     bye |-> "Au revoir!"]] >>

QuestKeys == {"chewie_04_quest", "chewie_13_quest"}

\* ------------------------------------------------------------- Character
\* Character.__init__
Character(name) ==
    [name |-> name,
     moving_direction |-> 0,
     velocity |-> <<0, 0>>,
     position |-> <<0, 0>>,
     old_position |-> <<0, 0>>,
     aliased |-> FALSE,              \* _position is _old_position (same list)
     rect |-> Rect(0, 0, SpriteW, SpriteH),
     feet |-> Rect(0, 0, FeetW, FeetHeight),
     talking |-> FALSE,
     talkingwho |-> None,
     quest |-> None]

\* self.rect.topleft = self._position ; self.feet.midbottom = self.rect.midbottom
SyncRects(c) ==
    LET r == [c.rect EXCEPT !.x = Trunc(c.position[1]), !.y = Trunc(c.position[2])]
        mb == midbottom(r)
    IN [c EXCEPT !.rect = r,
                 !.feet = [c.feet EXCEPT !.x = mb[1] - (c.feet.w \div 2),
                                         !.y = mb[2] - c.feet.h]]

\* velocity[i] * dt, dt = ms / 1000.0
Delta(v, ms) == (v * ms * Sub) \div 1000

\* variant of update that does not record the old position
CharUpdateNoSave(c, ms) ==
    SyncRects([c EXCEPT !.position = <<c.position[1] + Delta(c.velocity[1], ms),
                                       c.position[2] + Delta(c.velocity[2], ms)>>,
                        !.old_position = IF c.aliased
                                         THEN <<c.position[1] + Delta(c.velocity[1], ms),
                                                c.position[2] + Delta(c.velocity[2], ms)>>
                                         ELSE c.old_position])

\* Character.update(dt)
CharUpdate(c, ms) ==
    SyncRects([c EXCEPT !.old_position = c.position,
                        !.aliased = FALSE,
                        !.position = <<c.position[1] + Delta(c.velocity[1], ms),
                                       c.position[2] + Delta(c.velocity[2], ms)>>])

\* variant of move_back that also stops the sprite
CharMoveBackStops(c) ==
    SyncRects([c EXCEPT !.position = c.old_position, !.aliased = TRUE,
                        !.velocity = <<0, 0>>])

\* Character.move_back(dt)
CharMoveBack(c) ==
    SyncRects([c EXCEPT !.position = c.old_position, !.aliased = TRUE])

\* c._position[0] = x ; c._position[1] = y   (in-place write of the list)
SetPositionInPlace(c, x, y) ==
    [c EXCEPT !.position = <<x, y>>,
              !.old_position = IF c.aliased THEN <<x, y>> ELSE c.old_position]


\* ------------------------------------------------------------------ state
VARIABLES
    hero,            \* maps[m].hero: one Character record per map
    characters,      \* maps[m].characters: sequence of NPC records per map
    dialog,          \* maps[m]._dialog
    quests,          \* GameEngine.quests: key -> [status, future_status]
    current_map,     \* GameEngine.current_map
    running,         \* GameEngine.running
    pc,              \* position in GameEngine.run
    dt,              \* dt of the tick, in milliseconds
    exit_collision,  \* GameMap.update: index of the exit the hero hit (0: none)
    map_name,        \* GameMap.update: the value it returns
    ticks,           \* iterations of the run loop started
    closed,          \* history: the last handle_input toggled talking off
    pre,             \* history: hero and characters at entry of the last update
    log,             \* history: what the NPC loop of the last update did
    choices,         \* history: changes of the commanded velocity and wander draws
                     \* other than (direction 0, no change) so far
    last_pressed,    \* history: pygame.key.get_pressed() as handle_input just read it
    held,            \* history: the velocity the last handle_input commanded
    drawn_touching   \* history: the NPCs touching the hero for which move_characters
                     \* just drew something else than (direction 0, no change)

vars == <<hero, characters, dialog, quests, current_map, running, pc, dt,
          exit_collision, map_name, ticks, closed, pre, log, choices, last_pressed, held,
          drawn_touching>>

\* Quest.__init__: _status = None, _future_status = None
Quest == [status |-> StatusNone, future_status |-> StatusNone]

\* GameMap.add_characters: a new Character, _position written in place
add_characters(table) ==
    [i \in 1..Len(table) |->
        SetPositionInPlace(Character(table[i].name),
                           table[i].x * Sub, table[i].y * Sub)]

\* the dialogs table of the NPC called name
Dialogs(name) ==
    CHOOSE i \in 1..Len(CharacterTable) : CharacterTable[i].name = name

DialogLine(name, key) == CharacterTable[Dialogs(name)].dialogs[key]

\* GameEngine.__init__: one GameMap per .tmx, each with hero=Character()
InitHero(m) ==
    IF m = MainMap
    THEN SetPositionInPlace(Character(HeroName), HeroStartX * Sub, HeroStartY * Sub)
    ELSE SetPositionInPlace(Character(HeroName),
                            HeroStartPostion[m][1] * Sub, HeroStartPostion[m][2] * Sub)

NoLog == <<>>
NoKeys == [up |-> FALSE, down |-> FALSE, left |-> FALSE, right |-> FALSE]
NoPre == [hero |-> Character(HeroName), characters |-> <<>>]

Init ==
    /\ hero = [m \in Maps |-> InitHero(m)]
    /\ characters = [m \in Maps |->
                        IF m = MainMap THEN add_characters(CharacterTable) ELSE <<>>]
    /\ dialog = [m \in Maps |-> None]
    /\ quests = [q \in QuestKeys |-> Quest]
    /\ current_map = MainMap
    /\ running = TRUE
    /\ pc = "input"
    /\ dt = 0
    /\ exit_collision = 0
    /\ map_name = MainMap
    /\ ticks = 0
    /\ closed = FALSE
    /\ pre = NoPre
    /\ log = NoLog
    /\ choices = 0
    /\ last_pressed = NoKeys
    /\ held = <<0, 0>>
    /\ drawn_touching = {}

\* ----------------------------------------------------- GameEngine.handle_input
EventKinds == {"QUIT", "K_ESCAPE", "K_SPACE"}

RECURSIVE SeqsUpTo(_, _)
SeqsUpTo(S, n) ==
    IF n = 0 THEN {<<>>}
    ELSE LET shorter == SeqsUpTo(S, n - 1)
         IN shorter \cup {Append(s, e) : s \in {t \in shorter : Len(t) = n - 1}, e \in S}

\* what pygame.event.poll() can hand out in one handle_input
EventQueues == SeqsUpTo(EventKinds, MaxEvents)

\* variant of the K_SPACE branch that leaves _dialog as it is
ToggleTalkKeepsDialog(st) ==
    LET h1 == [st.hero EXCEPT !.talking = ~st.hero.talking]
    IN IF h1.talking
       THEN [st EXCEPT !.hero = h1]
       ELSE LET h2 == [h1 EXCEPT !.talkingwho = None]
                s2 == [st EXCEPT !.hero = h2, !.closed = TRUE]
            IN IF h2.quest \notin DOMAIN st.quests
               THEN [s2 EXCEPT !.crashed = TRUE]
               ELSE [s2 EXCEPT !.quests[h2.quest].status =
                                    st.quests[h2.quest].future_status]

\* the K_SPACE branch: flip the talking bit; when it becomes false clear
\* talkingwho and _dialog, then commit quests[hero.quest]; quests[None] raises
\* KeyError after the first three assignments have been made
ToggleTalk(st) ==
    LET h1 == [st.hero EXCEPT !.talking = ~st.hero.talking]
    IN IF h1.talking
       THEN [st EXCEPT !.hero = h1]
       ELSE LET h2 == [h1 EXCEPT !.talkingwho = None]
                s2 == [st EXCEPT !.hero = h2, !.dialog = None, !.closed = TRUE]
            IN IF h2.quest \notin DOMAIN st.quests
               THEN [s2 EXCEPT !.crashed = TRUE]
               ELSE [s2 EXCEPT !.quests[h2.quest].status =
                                    st.quests[h2.quest].future_status]

\* variant of the event loop without the two break statements
RECURSIVE ProcessEventsNoBreak(_, _)
RECURSIVE ProcessEvents(_, _)
ProcessEventsNoBreak(evs, st) ==
    IF evs = <<>> \/ st.crashed THEN st
    ELSE LET e == Head(evs)
         IN IF e \in {"QUIT", "K_ESCAPE"}
            THEN ProcessEventsNoBreak(Tail(evs), [st EXCEPT !.running = FALSE])
            ELSE IF e = "K_SPACE" THEN ProcessEventsNoBreak(Tail(evs), ToggleTalk(st))
            ELSE ProcessEventsNoBreak(Tail(evs), st)

\* the while-event loop: QUIT and K_ESCAPE clear running and break
ProcessEvents(evs, st) ==
    IF evs = <<>> \/ st.crashed THEN st
    ELSE LET e == Head(evs)
         IN IF e \in {"QUIT", "K_ESCAPE"} THEN [st EXCEPT !.running = FALSE]
            ELSE IF e = "K_SPACE" THEN ProcessEvents(Tail(evs), ToggleTalk(st))
            ELSE ProcessEvents(Tail(evs), st)

\* variant of the if/elif chains that tests K_DOWN and K_RIGHT first
VelocityFromPressedDownRightFirst(pressed) ==
    << IF pressed.right THEN MOVE_SPEED
       ELSE IF pressed.left THEN -MOVE_SPEED ELSE 0,
       IF pressed.down THEN MOVE_SPEED
       ELSE IF pressed.up THEN -MOVE_SPEED ELSE 0 >>

\* pressed = pygame.key.get_pressed(): the if/elif chains on the two axes
VelocityFromPressed(pressed) ==
    << IF pressed.left THEN -MOVE_SPEED
       ELSE IF pressed.right THEN MOVE_SPEED ELSE 0,
       IF pressed.up THEN -MOVE_SPEED
       ELSE IF pressed.down THEN MOVE_SPEED ELSE 0 >>

Pressed == [up : BOOLEAN, down : BOOLEAN, left : BOOLEAN, right : BOOLEAN]

\* what the event loop of handle_input works on, as it is when the loop starts
AtPoll ==
    [hero |-> hero[current_map], dialog |-> dialog[current_map],
     quests |-> quests, running |-> running, crashed |-> FALSE, closed |-> FALSE]

\* dt = clock.tick() / 1000.0 ; self.handle_input()
HandleInput(ms, evs, pressed) ==
    /\ pc = "input"
    /\ ticks < MaxTicks
    /\ VelocityFromPressed(pressed) # held => choices < MaxChoices
    /\ LET st == ProcessEvents(evs, AtPoll)
       IN /\ dialog' = [dialog EXCEPT ![current_map] = st.dialog]
          /\ quests' = st.quests
          /\ running' = st.running
          /\ closed' = st.closed
          /\ IF st.crashed
             THEN /\ hero' = [hero EXCEPT ![current_map] = st.hero]
                  /\ pc' = "crashed"
             ELSE /\ hero' = [hero EXCEPT ![current_map] =
                                [st.hero EXCEPT !.velocity = VelocityFromPressed(pressed)]]
                  /\ pc' = "wander"
    /\ dt' = ms
    /\ ticks' = ticks + 1
    /\ last_pressed' = pressed
    /\ held' = VelocityFromPressed(pressed)
    /\ choices' = IF VelocityFromPressed(pressed) # held THEN choices + 1 ELSE choices
    /\ UNCHANGED <<characters, current_map, exit_collision, map_name, pre, log,
                   drawn_touching>>


\* ------------------------------------------------- GameMap.move_characters
\* variant of the wander of one NPC without the test for touching the hero
WanderOneAlways(c, h, dir, set) ==
    LET c1 == [c EXCEPT !.moving_direction = dir]
    IN IF ~set THEN c1
       ELSE [c1 EXCEPT !.velocity =
               << IF dir = 4 THEN MOVE_SPEED
                  ELSE IF dir = 3 THEN -MOVE_SPEED ELSE 0,
                  IF dir = 2 THEN MOVE_SPEED
                  ELSE IF dir = 1 THEN -MOVE_SPEED ELSE 0 >>]

\* One NPC of the wander loop.  dir is the moving_direction drawn (0 when
\* randint(0, 100) < 65, else choice([1, 2, 3, 4])); set is randint(0, 150) == 0.
WanderOne(c, h, dir, set) ==
    IF colliderect(c.rect, h.rect) THEN c
    ELSE LET c1 == [c EXCEPT !.moving_direction = dir]
         IN IF ~set THEN c1
            ELSE [c1 EXCEPT !.velocity =
                    << IF dir = 4 THEN MOVE_SPEED
                       ELSE IF dir = 3 THEN -MOVE_SPEED ELSE 0,
                       IF dir = 2 THEN MOVE_SPEED
                       ELSE IF dir = 1 THEN -MOVE_SPEED ELSE 0 >>]

Directions == 0..4

\* the NPCs that draw (not touching the hero) something else than (0, no change)
Drawn(m, dirs, sets) ==
    {i \in 1..Len(characters[m]) :
        /\ dirs[i] # 0 \/ sets[i]
        /\ ~colliderect(characters[m][i].rect, hero[m].rect)}

\* the NPCs touching the hero for which the draws are not (0, no change)
DrawnTouching(m, dirs, sets) ==
    {i \in 1..Len(characters[m]) :
        /\ dirs[i] # 0 \/ sets[i]
        /\ colliderect(characters[m][i].rect, hero[m].rect)}

\* variant of move_characters that walks through the characters of every map
MoveCharactersEverywhere(dirs, sets) ==
    /\ pc = "wander"
    /\ choices + Cardinality(Drawn(current_map, dirs, sets)) <= MaxChoices
    /\ choices' = choices + Cardinality(Drawn(current_map, dirs, sets))
    /\ characters' = [m \in Maps |->
            [i \in 1..Len(characters[m]) |->
                WanderOne(characters[m][i], hero[m], dirs[i], sets[i])]]
    /\ pc' = "update"
    /\ closed' = FALSE
    /\ last_pressed' = NoKeys
    /\ drawn_touching' = DrawnTouching(current_map, dirs, sets)
    /\ UNCHANGED <<hero, dialog, quests, current_map, running, dt,
                   exit_collision, map_name, ticks, pre, log, held>>

\* self.maps[self.current_map].move_characters()
MoveCharacters(dirs, sets) ==
    /\ pc = "wander"
    /\ choices + Cardinality(Drawn(current_map, dirs, sets)) <= MaxChoices
    /\ choices' = choices + Cardinality(Drawn(current_map, dirs, sets))
    /\ characters' = [characters EXCEPT ![current_map] =
            [i \in 1..Len(characters[current_map]) |->
                WanderOne(characters[current_map][i], hero[current_map],
                          dirs[i], sets[i])]]
    /\ pc' = "update"
    /\ closed' = FALSE
    /\ last_pressed' = NoKeys
    /\ drawn_touching' = DrawnTouching(current_map, dirs, sets)
    /\ UNCHANGED <<hero, dialog, quests, current_map, running, dt,
                   exit_collision, map_name, ticks, pre, log, held>>

\* ------------------------------------------------------------ GameMap.update
\* variant of all_collisions that leaves the walls out
AllCollisionsExitsOnly(m) == Exits[m]

\* all_collisions = self.exits + self.walls
AllCollisions(m) == Exits[m] \o Walls[m]

\* variant of the exit test that takes 'no exit' for the first exit
ExitCollisionOrFirst(feet, m) ==
    IF collidelist(feet, Exits[m]) > 0 THEN collidelist(feet, Exits[m]) ELSE 1

\* exit_collision = sprite.feet.collidelist(self.exits)
ExitCollision(feet, m) == collidelist(feet, Exits[m])

\* variant of the wall test that looks at the first wall of the layer only
OnWallFirstOnly(feet, m) == colliderect(feet, Walls[m][1])

\* sprite.feet.collidelist(self.walls) > -1
OnWall(feet, m) == collidelist(feet, Walls[m]) > 0

\* First part of update: map_name = current_map, group.update(dt) on every
\* sprite, then the hero's turn of the sprite loop up to the exit test.
UpdateBegin ==
    /\ pc = "update"
    /\ LET m == current_map
           h1 == CharUpdate(hero[m], dt)
           h2 == IF OnWall(h1.feet, m) THEN CharMoveBack(h1) ELSE h1
           ec == ExitCollision(h2.feet, m)
       IN /\ pre' = [hero |-> hero[m], characters |-> characters[m]]
          /\ hero' = [hero EXCEPT ![m] = h2]
          /\ characters' = [characters EXCEPT ![m] =
                [i \in 1..Len(characters[m]) |-> CharUpdate(characters[m][i], dt)]]
          /\ exit_collision' = ec
          /\ map_name' = m
          /\ pc' = IF ec > 0 THEN "exitloop" ELSE "npcs"
    /\ drawn_touching' = {}
    /\ UNCHANGED <<dialog, quests, current_map, running, dt, ticks, closed, log,
                   choices, last_pressed, held>>

\* One iteration of the while loop of the exit branch; sx, sy are the two
\* random.choice([-1, 1]).  (centerx - left) * 1.5 is kept in 1/Sub pixels.
ExitLoopBody(c, m, sx, sy) ==
    LET all == AllCollisions(m)
        r == all[collidelist(c.feet, all)]
        x == centerx(r) * Sub + (((centerx(r) - r.x) * 3 * Sub) \div 2) * sx
        y == centery(r) * Sub + (((centery(r) - r.y) * 3 * Sub) \div 2) * sy
    IN CharUpdate(SetPositionInPlace(c, x, y), dt)

ExitLoopStep(sx, sy) ==
    /\ pc = "exitloop"
    /\ LET m == current_map
       IN IF collidelist(hero[m].feet, AllCollisions(m)) > 0
          THEN /\ hero' = [hero EXCEPT ![m] = ExitLoopBody(hero[m], m, sx, sy)]
               /\ UNCHANGED <<pc, map_name>>
          ELSE /\ map_name' = ExitObjs[m][exit_collision].name
               /\ pc' = "npcs"
               /\ UNCHANGED hero
    /\ UNCHANGED <<characters, dialog, quests, current_map, running, dt,
                   exit_collision, ticks, closed, pre, log, choices, last_pressed, held,
          drawn_touching>>

\* variant of the offer that writes the committed status at once
OfferQuestCommits(qs, quest_name) ==
    [qs EXCEPT ![quest_name].future_status = OFFERED, ![quest_name].status = OFFERED]

\* GameEngine.quests[self.hero.quest].future_status = 1
OfferQuest(qs, quest_name) == [qs EXCEPT ![quest_name].future_status = OFFERED]

\* variant of the first-contact line that reads the 'salutation' entry
FirstContactSalutation(name) == DialogLine(name, "salutation")

\* variant of the test below that reads the staged status
QuestStaged(qs, quest_name) == qs[quest_name].future_status = OFFERED

\* GameEngine.quests[self.hero.quest].status == 1
QuestCommitted(qs, quest_name) == qs[quest_name].status = OFFERED

\* dialog = sprite.dialogs['hello']
FirstContactLine(name) == DialogLine(name, "hello")

\* variant of the guard below that does not look at the local dialog
EvaluatedWhenTalking(talking, dlg) == talking

\* if self.hero.talking and not dialog
Evaluated(talking, dlg) == talking /\ dlg = None

\* variant of the test below that lets every NPC but the quest's own replace it
TakesQuestUnlessOwn(quest, quest_name) == quest # quest_name

\* if not self.hero.quest
TakesQuest(quest, quest_name) == quest = None

\* The turn of NPC i in the sprite loop.  st.dialog is the local variable
\* dialog; st.log records, for the claims, what was done for each NPC.
NpcTurn(st, i, m) ==
    LET c0 == st.chars[i]
        c == IF OnWall(c0.feet, m) THEN CharMoveBack(c0) ELSE c0
        h == st.hero
        touching == colliderect(c.rect, h.rect)
        quest_name == c.name \o "_quest"
        h1 == [h EXCEPT !.talkingwho = c.name]
        s1 == [st EXCEPT !.chars[i] = c]
        s2 == IF ~(Evaluated(h.talking, st.dialog) /\ touching) THEN s1
              ELSE IF TakesQuest(h1.quest, quest_name)
              THEN [s1 EXCEPT !.hero = [h1 EXCEPT !.quest = quest_name],
                              !.dialog = FirstContactLine(c.name),
                              !.quests = OfferQuest(st.quests, quest_name)]
              ELSE IF h1.quest = quest_name
              THEN IF QuestCommitted(st.quests, h1.quest)
                   THEN [s1 EXCEPT !.hero = h1, !.dialog = DialogLine(c.name, "what")]
                   ELSE [s1 EXCEPT !.hero = h1]
              ELSE [s1 EXCEPT !.hero = h1, !.dialog = DialogLine(c.name, "goaway")]
        entry == [name |-> c.name, talking |-> h.talking, touching |-> touching,
                  dialog_before |-> st.dialog, quest_before |-> h.quest,
                  status_before |-> IF h.quest \in DOMAIN st.quests
                                    THEN st.quests[h.quest].status ELSE StatusNone,
                  line |-> IF s2.dialog # st.dialog THEN s2.dialog ELSE None,
                  quest_after |-> s2.hero.quest,
                  future_before |-> st.quests[quest_name].future_status,
                  who_before |-> h.talkingwho, who_after |-> s2.hero.talkingwho,
                  future_after |-> s2.quests[quest_name].future_status]
    IN [s2 EXCEPT !.log = Append(st.log, entry)]

RECURSIVE NpcLoop(_, _, _)
NpcLoop(st, i, m) ==
    IF i > Len(st.chars) THEN st ELSE NpcLoop(NpcTurn(st, i, m), i + 1, m)

\* variant of the test below that does not ask for a resolved line
PublishedWhenTalking(talking, dlg) == talking

\* if self.hero.talking and dialog
Published(talking, dlg) == talking /\ dlg # None

\* Rest of update: the NPCs' turns of the sprite loop, then the publication
\* of the dialog and the return of map_name.
UpdateEnd ==
    /\ pc = "npcs"
    /\ LET m == current_map
           st == NpcLoop([hero |-> hero[m], chars |-> characters[m], dialog |-> None,
                          quests |-> quests, log |-> <<>>], 1, m)
       IN /\ characters' = [characters EXCEPT ![m] = st.chars]
          /\ quests' = st.quests
          /\ log' = st.log
          /\ IF Published(st.hero.talking, st.dialog)
             THEN /\ dialog' = [dialog EXCEPT ![m] = st.dialog]
                  /\ hero' = [hero EXCEPT ![m] = st.hero]
             ELSE /\ hero' = [hero EXCEPT ![m] = [st.hero EXCEPT !.talkingwho = None]]
                  /\ UNCHANGED dialog
    /\ pc' = "switch"
    /\ UNCHANGED <<current_map, running, dt, exit_collision, map_name, ticks,
                   closed, pre, choices, last_pressed, held, drawn_touching>>

\* ------------------------------------------------------------ GameEngine.run
\* After update: the map switch, draw, and the while self.running test.
\* self.maps[new_map] raises KeyError when new_map is not a loaded map.
Switch ==
    /\ pc = "switch"
    /\ IF map_name # current_map /\ map_name \notin Maps
       THEN /\ pc' = "crashed"
            /\ UNCHANGED <<hero, current_map, dt, exit_collision, map_name, pre, log>>
       ELSE /\ hero' = IF map_name # current_map /\ HeroStartPostion[map_name] # <<>>
                       THEN [hero EXCEPT ![map_name] =
                               SetPositionInPlace(hero[map_name],
                                   HeroStartPostion[map_name][1] * Sub,
                                   HeroStartPostion[map_name][2] * Sub)]
                       ELSE hero
            /\ current_map' = map_name
            /\ pc' = IF running THEN "input" ELSE "done"
            \* the locals of the iteration (and the history of its update) end here
            /\ dt' = 0
            /\ exit_collision' = 0
            /\ map_name' = map_name
            /\ pre' = NoPre
            /\ log' = NoLog
    /\ UNCHANGED <<characters, dialog, quests, running, ticks, closed, choices, last_pressed, held,
                   drawn_touching>>

Next ==
    \/ /\ pc = "input"
       /\ \E ms \in DtMs, evs \in EventQueues, pressed \in Pressed :
             HandleInput(ms, evs, pressed)
    \/ /\ pc = "wander"
       /\ \E dirs \in [1..Len(CharacterTable) -> Directions],
             sets \in [1..Len(CharacterTable) -> BOOLEAN] :
             MoveCharacters(dirs, sets)
    \/ UpdateBegin
    \/ \E sx \in {-1, 1}, sy \in {-1, 1} : ExitLoopStep(sx, sy)
    \/ UpdateEnd
    \/ Switch

Spec == Init /\ [][Next]_vars


\* ------------------------------------------------------------------
\* SpecMeet: the same program, started from a state of a run in which
\* chewie_13 has wandered up to the hero.  Every sprite has been through
\* update (rects in step with the positions); the hero and chewie_04 have
\* not moved.  chewie_13 has walked 2240 px to the left and 540 px down from
\* its place in the characters list; on the way down a draw of
\* move_characters set its velocity to (0, MOVE_SPEED) and later draws left
\* the direction at 0; its last 50 ms step brought it to (2176, 9972), where
\* its rect overlaps the hero's rect and its feet are clear of the walls.
Settled(c) == SyncRects([c EXCEPT !.old_position = c.position])

Arrived(c, dx, dy, v, ms) ==
    CharUpdate([c EXCEPT !.position = <<c.position[1] + dx * Sub - Delta(v[1], ms),
                                        c.position[2] + dy * Sub - Delta(v[2], ms)>>,
                         !.velocity = v], ms)

InitMeet ==
    /\ hero = [m \in Maps |-> IF m = MainMap THEN Settled(InitHero(m)) ELSE InitHero(m)]
    /\ characters = [m \in Maps |->
            IF m = MainMap
            THEN [i \in 1..Len(CharacterTable) |->
                    IF i = 1 THEN Settled(add_characters(CharacterTable)[i])
                    ELSE Arrived(add_characters(CharacterTable)[i], -2240, 540,
                                 <<0, MOVE_SPEED>>, 50)]
            ELSE <<>>]
    /\ dialog = [m \in Maps |-> None]
    /\ quests = [q \in QuestKeys |-> Quest]
    /\ current_map = MainMap
    /\ running = TRUE
    /\ pc = "input"
    /\ dt = 0
    /\ exit_collision = 0
    /\ map_name = MainMap
    /\ ticks = 0
    /\ closed = FALSE
    /\ pre = NoPre
    /\ log = NoLog
    /\ choices = 0
    /\ last_pressed = NoKeys
    /\ held = <<0, 0>>
    /\ drawn_touching = {}

SpecMeet == InitMeet /\ [][Next]_vars

\* ------------------------------------------------------------------
\* SpecEntity: the operations of one Character, applied in the orders the
\* program applies them: update, update then move_back, and in-place writes
\* of _position (exit correction, spawn point) in between; the velocity is
\* whatever handle_input or move_characters left.  The entity is the hero
\* record of the current map; pre.hero is the entity before the last update.
Velocities == {-MOVE_SPEED, 0, MOVE_SPEED}
EntityDtMs == {0, 25, 50}
\* positions written in place, in pixels times 2 (the exit correction yields halves)
WrittenHalves == {<<-45, 30>>, <<4495, 20060>>}

InitEntity ==
    /\ \E vx \in Velocities, vy \in Velocities :
          hero = [m \in Maps |-> [InitHero(m) EXCEPT !.velocity = <<vx, vy>>]]
    /\ characters = [m \in Maps |-> <<>>]
    /\ dialog = [m \in Maps |-> None]
    /\ quests = [q \in QuestKeys |-> Quest]
    /\ current_map = MainMap
    /\ running = TRUE
    /\ pc = "ent_ready"
    /\ dt = 0
    /\ exit_collision = 0
    /\ map_name = MainMap
    /\ ticks = 0
    /\ closed = FALSE
    /\ pre = NoPre
    /\ log = NoLog
    /\ choices = 0
    /\ last_pressed = NoKeys
    /\ held = <<0, 0>>
    /\ drawn_touching = {}

EntRest == <<characters, dialog, quests, current_map, running, exit_collision,
             map_name, closed, log, choices, last_pressed, held, drawn_touching>>

\* sprite.update(dt)
EntIntegrate(ms) ==
    /\ pc \in {"ent_ready", "ent_integrated", "ent_rolledback"}
    /\ ticks < MaxSteps
    /\ pre' = [pre EXCEPT !.hero = hero[current_map]]
    /\ hero' = [hero EXCEPT ![current_map] = CharUpdate(hero[current_map], ms)]
    /\ dt' = ms
    /\ pc' = "ent_integrated"
    /\ ticks' = ticks + 1
    /\ UNCHANGED EntRest

\* sprite.move_back(dt), called after update in the same GameMap.update
EntRollback ==
    /\ pc = "ent_integrated"
    /\ ticks < MaxSteps
    /\ hero' = [hero EXCEPT ![current_map] = CharMoveBack(hero[current_map])]
    /\ pc' = "ent_rolledback"
    /\ ticks' = ticks + 1
    /\ UNCHANGED <<pre, dt>>
    /\ UNCHANGED EntRest

\* sprite._position[0] = ... ; sprite._position[1] = ...
EntWrite(xy) ==
    /\ pc \in {"ent_ready", "ent_integrated", "ent_rolledback"}
    /\ ticks < MaxSteps
    /\ hero' = [hero EXCEPT ![current_map] =
                    SetPositionInPlace(hero[current_map],
                                       (xy[1] * Sub) \div 2, (xy[2] * Sub) \div 2)]
    /\ pc' = "ent_ready"
    /\ ticks' = ticks + 1
    /\ UNCHANGED <<pre, dt>>
    /\ UNCHANGED EntRest

NextEntity ==
    \/ \E ms \in EntityDtMs : EntIntegrate(ms)
    \/ EntRollback
    \/ \E xy \in WrittenHalves : EntWrite(xy)

SpecEntity == InitEntity /\ [][NextEntity]_vars

\* ====================================================================
\* Properties
\* ====================================================================
Q04 == "chewie_04_quest"
Q13 == "chewie_13_quest"
StatusChanged == \E q \in QuestKeys : quests'[q].status # quests[q].status

\* C1: the committed status of a quest changes only in the handle_input step
\* in which the talking bit is flipped from true to false; no step of
\* GameMap.update (which writes future_status) changes a committed status.
C1_StatusOnlyAtClose ==
    [][StatusChanged => (pc = "input" /\ closed')]_vars

\* C1 witness: a talk session has just been closed and it committed OFFERED.
C1_Witness ==
    /\ pc = "wander"
    /\ closed
    /\ \E q \in QuestKeys : quests[q].status = OFFERED

\* C2: with no active quest and the hero's rect overlapping chewie_04's rect,
\* an update made while talking publishes chewie_04's hello line and makes
\* chewie_04_quest the active quest; its committed status stays NONE in every
\* step that does not close the talk session on the main map, and becomes
\* OFFERED in the handle_input that closes it.
C2_Hello ==
    (/\ pc = "npcs" /\ pc' = "switch"
     /\ current_map = MainMap
     /\ hero[MainMap].talking
     /\ hero[MainMap].quest = None
     /\ colliderect(characters'[MainMap][1].rect, hero[MainMap].rect))
    => (/\ dialog'[MainMap] = "Hello world!"
        /\ hero'[MainMap].quest = Q04
        /\ quests'[Q04].status = StatusNone)

C2_Stays ==
    (/\ hero[MainMap].quest = Q04
     /\ quests[Q04].status = StatusNone
     /\ ~(pc = "input" /\ current_map = MainMap /\ closed'))
    => quests'[Q04].status = StatusNone

C2_Commits ==
    (/\ pc = "input"
     /\ current_map = MainMap
     /\ hero[MainMap].quest = Q04
     /\ hero[MainMap].talking
     /\ closed')
    => quests'[Q04].status = OFFERED

C2_HelloThenOfferedAtClose ==
    [][C2_Hello /\ C2_Stays /\ C2_Commits]_vars

\* C2 witness: the scenario has run to its end: chewie_04_quest is the hero's
\* quest, the session was just closed and the committed status is OFFERED.
C2_Witness ==
    /\ pc = "wander"
    /\ closed
    /\ current_map = MainMap
    /\ hero[MainMap].quest = Q04
    /\ ~hero[MainMap].talking
    /\ dialog[MainMap] = None
    /\ quests[Q04].status = OFFERED

\* the feet of c, integrated with the dt of the tick, overlap a wall
HitWall(c) == collidelist(CharUpdate(c, dt).feet, Walls[current_map]) > 0

SameAsBefore(c, before) ==
    /\ c.position = before.position
    /\ c.velocity = before.velocity

\* C3: at the end of an update, every sprite of the map whose feet overlapped
\* a wall after the integration has exactly the position and the velocity it
\* had when the update began.
C3_WallCollisionReverts ==
    pc = "switch" =>
        /\ HitWall(pre.hero) => SameAsBefore(hero[current_map], pre.hero)
        /\ \A i \in 1..Len(pre.characters) :
              HitWall(pre.characters[i]) =>
                  SameAsBefore(characters[current_map][i], pre.characters[i])

\* C3 witness: an update has ended in which a moving NPC ran into a wall.
C3_Witness ==
    /\ pc = "switch"
    /\ dt > 0
    /\ \E i \in 1..Len(pre.characters) :
          /\ pre.characters[i].velocity # <<0, 0>>
          /\ HitWall(pre.characters[i])

FeetClear(m) == collidelist(hero[m].feet, AllCollisions(m)) = 0

C5_IntegrateRollbackRoundTrip ==
    pc = "ent_rolledback" => hero[current_map].position = pre.hero.position

\* C5 witness: a pair has completed, with a velocity and a dt that moved the
\* entity, after an in-place write that followed two earlier operations.
C5_Witness ==
    /\ pc = "ent_rolledback"
    /\ dt > 0
    /\ hero[current_map].velocity # <<0, 0>>
    /\ ticks >= 5
    /\ hero[current_map].position \in
          {<<(xy[1] * Sub) \div 2, (xy[2] * Sub) \div 2>> : xy \in WrittenHalves}


FeetAnchored(c) == midbottom(c.feet) = midbottom(c.rect)

MapChanging == pc = "switch" /\ current_map' # current_map

\* C6 as stated: after every position mutation (update, move_back, and the
\* placement of the hero at the spawn point on a map switch) the bottom-center
\* of the feet box equals the bottom-center of the render box.
C6_FeetAnchoredAfterMutation ==
    /\ [](pc \in {"exitloop", "npcs", "switch"} =>
            /\ FeetAnchored(hero[current_map])
            /\ \A i \in 1..Len(characters[current_map]) :
                  FeetAnchored(characters[current_map][i]))
    /\ [][(MapChanging /\ HeroStartPostion[current_map'] # <<>>) =>
            FeetAnchored(hero'[current_map'])]_vars

PressedOK == pc = "input" /\ pc' = "wander"

Diagonal(p) == (p.up \/ p.down) /\ (p.left \/ p.right)

\* C7 as stated: a vertical and a horizontal key held together give two
\* nonzero velocity components; both keys of one axis held give 0 on that axis.
C7_OpposingKeysCancel ==
    [][PressedOK =>
        LET p == last_pressed'
            v == hero'[current_map].velocity
        IN /\ Diagonal(p) => (v[1] # 0 /\ v[2] # 0)
           /\ (p.up /\ p.down) => v[2] = 0
           /\ (p.left /\ p.right) => v[1] = 0]_vars

\* C7 amended: a vertical and a horizontal key held together give two nonzero
\* velocity components; both keys of one axis held give the velocity of K_UP
\* (resp. K_LEFT), -MOVE_SPEED, on that axis.
C7_UpAndLeftWin ==
    [][PressedOK =>
        LET p == last_pressed'
            v == hero'[current_map].velocity
        IN /\ Diagonal(p) => (v[1] # 0 /\ v[2] # 0)
           /\ (p.up /\ p.down) => v[2] = -MOVE_SPEED
           /\ (p.left /\ p.right) => v[1] = -MOVE_SPEED]_vars

\* C7 witness: handle_input has run with all four direction keys held.
C7_Witness ==
    /\ pc = "wander"
    /\ last_pressed = [up |-> TRUE, down |-> TRUE, left |-> TRUE, right |-> TRUE]
    /\ hero[current_map].velocity = <<-MOVE_SPEED, -MOVE_SPEED>>

\* C8 as stated: the run loop never ends in an error; closing a talk session
\* while the hero of the current map has no quest leaves every committed
\* status as it was, clears _dialog and talkingwho, and the tick goes on.
C8_CloseWithoutQuestIsHarmless ==
    /\ [](pc # "crashed")
    /\ [][(pc = "input" /\ hero[current_map].quest = None /\ closed') =>
            /\ pc' = "wander"
            /\ ~StatusChanged
            /\ dialog'[current_map] = None
            /\ hero'[current_map].talkingwho = None]_vars

\* C9 as stated: across a map switch the hero of the destination map has the
\* active quest and the talking mode the hero of the source map had.
C9_OneSharedHero ==
    [][MapChanging =>
        /\ hero'[current_map'].quest = hero[current_map].quest
        /\ hero'[current_map'].talking = hero[current_map].talking]_vars

\* what the NPC loop must have done for the NPC of log entry e
LineAsClaimed(e) ==
    LET own == e.name \o "_quest"
    IN IF e.quest_before = None
       THEN /\ e.line = DialogLine(e.name, "hello")
            /\ e.quest_after = own
            /\ e.future_after = OFFERED
       ELSE IF e.quest_before = own
       THEN IF e.status_before # StatusNone
            THEN e.line = DialogLine(e.name, "what")
            ELSE e.line = None
       ELSE e.line = DialogLine(e.name, "goaway")

\* C10 as stated: in an update made while the hero talks, every NPC whose rect
\* overlaps the hero's rect gets its line resolved: hello (quest taken, OFFERED
\* staged) without active quest, what on the hero's own committed quest,
\* nothing on the own uncommitted quest, goaway on another NPC's quest.
C10_LineForEveryTouchingNpc ==
    pc = "switch" =>
        \A k \in 1..Len(log) :
            (log[k].talking /\ log[k].touching) => LineAsClaimed(log[k])

\* C10 amended: the same, for every overlapping NPC that the sprite loop
\* reaches before a line has been resolved in this update.
C10_LineForFirstTouchingNpc ==
    pc = "switch" =>
        \A k \in 1..Len(log) :
            (log[k].talking /\ log[k].touching /\ log[k].dialog_before = None)
                => LineAsClaimed(log[k])

\* C10 witness: an update has resolved the goaway line of an NPC for a hero
\* whose active quest is another NPC's quest.
C10_Witness ==
    /\ pc = "switch"
    /\ \E k \in 1..Len(log) :
          /\ log[k].talking /\ log[k].touching /\ log[k].dialog_before = None
          /\ log[k].quest_before \notin {None, log[k].name \o "_quest"}
          /\ log[k].line = DialogLine(log[k].name, "goaway")
          /\ dialog[current_map] = log[k].line

\* the run loop is switching from current_map to another loaded map
SwitchTo(m) == pc = "switch" /\ map_name # current_map /\ map_name = m /\ m \in Maps

\* C11 as stated: when update returns another map, that map becomes the
\* current map and the position of its hero is the map's spawn point if it
\* has one, else the position the exit loop of this tick computed.
C11_SwitchPlacesHero ==
    [][\A m \in Maps : SwitchTo(m) =>
          /\ current_map' = m
          /\ hero'[m].position =
                IF HeroStartPostion[m] # <<>>
                THEN <<HeroStartPostion[m][1] * Sub, HeroStartPostion[m][2] * Sub>>
                ELSE hero[current_map].position]_vars

\* The program keeps executing: the while loop of the exit branch takes its
\* next iteration (or leaves) as long as the update is in it.
ExitLoop == \E sx \in {-1, 1}, sy \in {-1, 1} : ExitLoopStep(sx, sy)

SpecFair == Init /\ [][Next]_vars /\ WF_vars(ExitLoop)

\* C12 as stated: once the hero's feet have hit an exit, the correction loop
\* comes to an end in that update (after a bounded number of iterations, or
\* by a forced placement), and the update goes on to the NPCs and returns.
C12_ExitLoopEnds == (pc = "exitloop") ~> (pc = "npcs")

\* C13 as stated: an exit that leads to a map that is not loaded never
\* surfaces during play: no tick in which the hero has hit an exit fails on
\* the lookup of the map that update returned.
C13_UnknownDestinationNeverAtRuntime ==
    [][(pc = "switch" /\ exit_collision > 0) => pc' # "crashed"]_vars

Touching(c, h) == colliderect(c.rect, h.rect)

\* C14: move_characters leaves the velocity and the moving_direction of every
\* NPC whose rect overlaps the hero's rect as they were, whatever is drawn;
\* an NPC whose velocity changes in the step was not touching the hero.
C14_TouchingNpcKeepsIntent ==
    [][(pc = "wander" /\ pc' = "update") =>
        \A i \in 1..Len(characters[current_map]) :
            LET c == characters[current_map][i]
                d == characters'[current_map][i]
            IN /\ Touching(c, hero[current_map]) =>
                    (d.velocity = c.velocity /\ d.moving_direction = c.moving_direction)
               /\ d.velocity # c.velocity => ~Touching(c, hero[current_map])]_vars

\* C14 witness: move_characters has just drawn a direction and a velocity
\* change for chewie_13 while it was touching the hero and moving.
C14_Witness ==
    /\ pc = "update"
    /\ 2 \in drawn_touching
    /\ characters[current_map][2].velocity = <<0, MOVE_SPEED>>
    /\ characters[current_map][2].moving_direction = 0

\* C15 as stated: an NPC whose rect overlapped the hero's rect at the wander
\* step of a tick has, at the end of the tick, the position it had at the
\* start of the tick.
C15_TouchingNpcHoldsStill ==
    pc = "switch" =>
        \A i \in 1..Len(pre.characters) :
            Touching(pre.characters[i], pre.hero) =>
                characters[current_map][i].position = pre.characters[i].position

\* the hero as the update of this tick left it before the exit test: integrated
\* from its state at entry, and rolled back if its feet were on a wall
BeforeExitTest ==
    LET h1 == CharUpdate(pre.hero, dt)
    IN IF collidelist(h1.feet, Walls[current_map]) > 0 THEN CharMoveBack(h1) ELSE h1

\* C16: an update in which the hero's feet, after integration and wall
\* rollback, overlap no exit returns the map it was given; the current map
\* changes in a tick only if the feet overlapped an exit in that tick.
C16_NoExitNoSwitch ==
    /\ []((pc = "switch" /\ collidelist(BeforeExitTest.feet, Exits[current_map]) = 0)
            => map_name = current_map)
    /\ [][current_map' # current_map =>
            (pc = "switch" /\ collidelist(BeforeExitTest.feet, Exits[current_map]) > 0)]_vars

\* C16 witness: an update has ended in which the hero walked without its
\* feet reaching an exit, and it returned the current map.
C16_Witness ==
    /\ pc = "switch"
    /\ hero[current_map].position # pre.hero.position
    /\ collidelist(BeforeExitTest.feet, Exits[current_map]) = 0
    /\ map_name = current_map

\* the log entries of the update in which a line was resolved
ResolvedIn(l) == {k \in 1..Len(l) : l[k].line # None}

Resolved == ResolvedIn(log)

\* C17: in one update at most one NPC's line is resolved; the NPCs that come
\* after it in the sprite loop are not evaluated: they resolve no line and
\* leave the hero's quest, the staged status of their quest and talkingwho
\* as they were; the line published is the one of that first NPC.
C17_AtMostOneLine ==
    pc = "switch" =>
        /\ Cardinality(Resolved) <= 1
        /\ \A k \in 1..Len(log) :
              log[k].dialog_before # None =>
                  /\ \E j \in Resolved : j < k
                  /\ log[k].line = None
                  /\ log[k].quest_after = log[k].quest_before
                  /\ log[k].future_after = log[k].future_before
                  /\ log[k].who_after = log[k].who_before
        /\ \A k \in Resolved :
              /\ dialog[current_map] = log[k].line
              /\ hero[current_map].talkingwho = log[k].name

\* C17 witness: chewie_04's line has been resolved in an update in which
\* chewie_13, reached after it, was touching the talking hero as well.
C17_Witness ==
    /\ pc = "switch"
    /\ Len(log) = 2
    /\ log[1].line # None
    /\ log[2].talking /\ log[2].touching /\ log[2].dialog_before # None

\* C18: at the end of an update hero.talkingwho is None or the name of the NPC
\* whose line this update published as the map's dialog; it is None whenever
\* the update resolved no line, and the dialog published before is then kept.
C18_TalkingWhoIsPublishedNpc ==
    [][(pc = "npcs" /\ pc' = "switch") =>
        LET who == hero'[current_map].talkingwho
        IN /\ who # None =>
                \E k \in ResolvedIn(log') :
                    /\ log'[k].name = who
                    /\ dialog'[current_map] = log'[k].line
           /\ ResolvedIn(log') = {} => (who = None /\ dialog' = dialog)]_vars

\* C18 witness: an update has ended in which the talking hero was still
\* touching chewie_04, the NPC of its own uncommitted quest: no line, no
\* talking partner, and the hello line published before still the dialog.
C18_Witness ==
    /\ pc = "switch"
    /\ current_map = MainMap
    /\ hero[MainMap].talking
    /\ hero[MainMap].quest = Q04
    /\ quests[Q04].status = StatusNone
    /\ log[1].touching
    /\ Resolved = {}
    /\ hero[MainMap].talkingwho = None
    /\ dialog[MainMap] = DialogLine("chewie_04", "hello")

\* rect.topleft is the position (as integers) and feet hang on rect.midbottom
InSync(c) ==
    /\ c.rect.x = Trunc(c.position[1])
    /\ c.rect.y = Trunc(c.position[2])
    /\ FeetAnchored(c)

\* C19 as stated: when a tick has ended (draw has been called), the rect of
\* the hero and of every NPC of the current map is at the sprite's position
\* and its feet are derived from that rect, also in a tick that switched maps.
C19_RectsTrackPositionsAtTickEnd ==
    (pc \in {"input", "done"} /\ ticks > 0) =>
        /\ InSync(hero[current_map])
        /\ \A i \in 1..Len(characters[current_map]) :
              InSync(characters[current_map][i])

QuitKinds == {"QUIT", "K_ESCAPE"}

HasQuit(evs) == \E i \in 1..Len(evs) : evs[i] \in QuitKinds

\* the events of a queue up to and including the first quit event
UpToQuit(evs) ==
    LET k == CHOOSE i \in 1..Len(evs) :
                 evs[i] \in QuitKinds /\ \A j \in 1..(i - 1) : evs[j] \notin QuitKinds
    IN SubSeq(evs, 1, k)

\* C20: a quit or escape event ends the event loop only: the events queued
\* behind it are not applied; the handle_input that polled it still sets the
\* hero's velocity from the keys, and the wander, the update, the switch and
\* the draw of that tick follow once and in order, after which the loop ends
\* and no tick is started.  (A tick is cut short only as any tick can be: by
\* the lookup of a map that is not loaded.)
C20_QuitCompletesTick ==
    /\ [](pc = "input" =>
            \A evs \in EventQueues :
                HasQuit(evs) =>
                    ProcessEvents(evs, AtPoll) = ProcessEvents(UpToQuit(evs), AtPoll))
    /\ [][(running /\ ~running') =>
            /\ pc = "input" /\ pc' = "wander"
            /\ hero'[current_map].velocity = VelocityFromPressed(last_pressed')]_vars
    /\ [][~running =>
            /\ ~running' /\ ticks' = ticks
            /\ \/ pc = "wander" /\ pc' = "update"
               \/ pc = "update" /\ pc' \in {"exitloop", "npcs"}
               \/ pc = "exitloop" /\ pc' \in {"exitloop", "npcs"}
               \/ pc = "npcs" /\ pc' = "switch"
               \/ pc = "switch" /\ pc' = "done" /\ map_name \in Maps
               \/ pc = "switch" /\ pc' = "crashed" /\ map_name \notin Maps]_vars

\* C20 witness: the handle_input of this tick polled a quit event while the
\* hero was talking and K_LEFT was held; the update of the tick has moved
\* the hero, who is still talking.
C20_Witness ==
    /\ pc = "switch"
    /\ ~running
    /\ hero[current_map].talking
    /\ hero[current_map].velocity = <<-MOVE_SPEED, 0>>
    /\ hero[current_map].position # pre.hero.position

\* the feet box c has once its rect is brought to its position is on no wall of m
PositionClear(c, m) == collidelist(SyncRects(c).feet, Walls[m]) = 0

\* a fresh Character written to the spawn point of map m
AtSpawn(m) ==
    SetPositionInPlace(Character(HeroName),
                       HeroStartPostion[m][1] * Sub, HeroStartPostion[m][2] * Sub)

\* every sprite is placed clear of the walls of its map, and so is every spawn point
StartClear ==
    /\ \A m \in Maps : PositionClear(InitHero(m), m)
    /\ \A i \in 1..Len(CharacterTable) :
          PositionClear(add_characters(CharacterTable)[i], MainMap)
    /\ \A m \in Maps : HeroStartPostion[m] # <<>> => PositionClear(AtSpawn(m), m)

\* the feet box of c is on no wall of m
OffWalls(c, m) == collidelist(c.feet, Walls[m]) = 0

\* C21: with every sprite and every spawn point placed clear of the walls, at
\* the end of every update no sprite of the updated map has its feet on a wall
\* of that map, and every update (the first, and those after a map switch)
\* starts with every sprite of its map at a position whose feet box is clear.
C21_WallsImpassable ==
    StartClear =>
        /\ pc = "switch" =>
              /\ OffWalls(hero[current_map], current_map)
              /\ \A i \in 1..Len(characters[current_map]) :
                    OffWalls(characters[current_map][i], current_map)
        /\ pc = "update" =>
              /\ PositionClear(hero[current_map], current_map)
              /\ \A i \in 1..Len(characters[current_map]) :
                    PositionClear(characters[current_map][i], current_map)

\* C21 witness: an update has ended in which the hero, walking, was taken
\* back from a wall that its feet had reached.
C21_Witness ==
    /\ StartClear
    /\ pc = "switch"
    /\ pre.hero.velocity # <<0, 0>>
    /\ ~OffWalls(CharUpdate(pre.hero, dt), current_map)
    /\ OffWalls(hero[current_map], current_map)

DialogSet(m) == dialog'[m] # dialog[m] /\ dialog'[m] # None

\* C22: on every map a _dialog that is set belongs to a hero who is talking;
\* a handle_input that toggles talking off leaves the _dialog of the current
\* map cleared (also when it then fails on the quest lookup); and a _dialog
\* is set only by the update of the current map, for a hero who is talking
\* before and after it.
C22_DialogOnlyWhileTalking ==
    /\ [](\A m \in Maps : dialog[m] # None => hero[m].talking)
    /\ [][(pc = "input" /\ closed') => dialog'[current_map] = None]_vars
    /\ [][\A m \in Maps : DialogSet(m) =>
            /\ pc = "npcs" /\ m = current_map
            /\ hero[m].talking /\ hero'[m].talking]_vars

\* C22 witness: after an update had published chewie_04's hello line, one
\* handle_input has toggled talking off and on again: the hero is talking
\* and the dialog of the map is cleared.
C22_Witness ==
    /\ pc = "wander"
    /\ closed
    /\ hero[current_map].talking
    /\ hero[current_map].quest = Q04
    /\ dialog[current_map] = None

\* the step sets or changes the quest of the hero of map m
QuestWritten(m) == hero'[m].quest # hero[m].quest

\* the NPC of log entry e is not the one of the quest the hero held
OtherNpc(e) == e.quest_before \notin {None, e.name \o "_quest"}

\* C23: the quest of every hero is None when the run starts; it is written
\* only by the update of the hero's map, when it is None and the hero is
\* talking, with the quest of an NPC that overlaps the hero in that update
\* (so it is never cleared or replaced, by no tick and no talk toggle); an
\* NPC other than the quest's own resolves no line or its goaway line, and
\* leaves the quest alone; a committed status that is OFFERED stays OFFERED.
C23_QuestWriteOnce ==
    /\ [](ticks = 0 => \A m \in Maps : hero[m].quest = None)
    /\ [][\A m \in Maps : QuestWritten(m) =>
            /\ pc = "npcs" /\ m = current_map
            /\ hero[m].quest = None /\ hero[m].talking
            /\ \E k \in 1..Len(log') :
                  /\ log'[k].touching /\ log'[k].quest_before = None
                  /\ hero'[m].quest = log'[k].name \o "_quest"]_vars
    /\ [](pc = "switch" =>
            \A k \in 1..Len(log) :
                OtherNpc(log[k]) =>
                    /\ log[k].line \in {None, DialogLine(log[k].name, "goaway")}
                    /\ log[k].quest_after = log[k].quest_before)
    /\ [][\A q \in QuestKeys :
            quests[q].status = OFFERED => quests'[q].status = OFFERED]_vars

\* C23 witness: the hero came into this update with chewie_04's quest and
\* leaves it with the same quest, after chewie_13 resolved its goaway line;
\* chewie_13's own quest has not been offered.
C23_Witness ==
    /\ pc = "switch"
    /\ pre.hero.quest = Q04
    /\ hero[current_map].quest = Q04
    /\ Len(log) = 2
    /\ OtherNpc(log[2])
    /\ log[2].line = DialogLine("chewie_13", "goaway")
    /\ quests[Q04].future_status = OFFERED
    /\ quests[Q13].future_status = StatusNone

\* the step is the map switch of run that places the hero of map m
PlacedAtSpawn(m) ==
    pc = "switch" /\ pc' # "crashed" /\ map_name = m /\ HeroStartPostion[m] # <<>>

\* what a step leaves alone on a map m that is not the current map
OffMapFrame(m) ==
    /\ characters'[m] = characters[m]
    /\ dialog'[m] = dialog[m]
    /\ hero'[m].velocity = hero[m].velocity
    /\ hero'[m].talking = hero[m].talking
    /\ hero'[m].talkingwho = hero[m].talkingwho
    /\ hero'[m].position =
          IF PlacedAtSpawn(m)
          THEN <<HeroStartPostion[m][1] * Sub, HeroStartPostion[m][2] * Sub>>
          ELSE hero[m].position

\* C24: the current map changes only in the switch that ends a tick, and no
\* step of a tick changes, on a map other than the current one, the NPCs, the
\* dialog, or the velocity, talking mode or talking partner of the hero; the
\* position of that hero changes only in a switch to its map, which writes the
\* spawn point of the map when it has one.
C24_OtherMapsUntouched ==
    /\ [][current_map' # current_map => pc = "switch"]_vars
    /\ [][\A m \in Maps \ {current_map} : OffMapFrame(m)]_vars

\* C24 witness: a tick on plains_portal.tmx has moved its hero off the spawn
\* point, while main_map.tmx holds the hero that left it through the exit and
\* its NPCs as its last update left them.
C24_Witness ==
    /\ pc = "switch"
    /\ current_map = PlainsMap
    /\ hero[PlainsMap].position #
          <<HeroStartPostion[PlainsMap][1] * Sub, HeroStartPostion[PlainsMap][2] * Sub>>
    /\ hero[MainMap].position # <<HeroStartX * Sub, HeroStartY * Sub>>
    /\ \A i \in 1..Len(characters[MainMap]) : InSync(characters[MainMap][i])

====
